---- MODULE Spec2Model ----
(***************************************************************************)
(* Routing Cycle Detector (my_solution.py).                                *)
(*                                                                         *)
(* The module models the three parts of the core pipeline:                 *)
(*   - process_file: the record ingestor, line by line;                    *)
(*   - find_longest_cycle_in_graph: the per-graph DFS, both as a recursive *)
(*     operator and as a step-by-step machine with an explicit call stack; *)
(*   - find_longest_routing_cycle and main: the cross-partition reduction  *)
(*     and the reporting of its result.                                    *)
(*                                                                         *)
(* A Python dict is modelled as a sequence of entries in insertion order   *)
(* with distinct keys; a list as a sequence; a set as a set.               *)
(***************************************************************************)
EXTENDS Integers, Sequences, FiniteSets, TLC

VARIABLES
    pc,               \* position of the running function
    graph,            \* find_longest_cycle_in_graph: its argument
    result,           \* find_longest_cycle_in_graph: its return value
    longest,          \* the nonlocal accumulator of dfs
    startIdx,         \* position of "for start_node in graph"
    visited,          \* the visited set shared by the dfs calls of one start
    stack,            \* the call stack of dfs
    graphs,           \* process_file / find_longest_routing_cycle: the dict of graphs
    expected,         \* history: the records the input lines denote
    kinds,            \* history: the kind of every line consumed
    partIdx,          \* position of "for ... in graphs.items()"
    best_claim_id,
    best_status_code,
    best_length,
    output            \* what main printed, and its exit status

vars == <<pc, graph, result, longest, startIdx, visited, stack, graphs,
          expected, kinds, partIdx, best_claim_id, best_status_code,
          best_length, output>>

searchVars  == <<graph, result, longest, startIdx, visited, stack>>
ingestVars  == <<expected, kinds>>
routingVars == <<partIdx, best_claim_id, best_status_code, best_length, output>>

-----------------------------------------------------------------------------
(* Bounds and input domains                                                *)

MaxEdges    == 4      \* edges of a graph given to the recursive search
DfsMaxEdges == 4      \* edges of a graph given to the step-by-step search
MaxRing     == 10     \* nodes of the largest single-cycle graph

Nodes     == {"A", "B", "C"}
RingNames == <<"R1", "R2", "R3", "R4", "R5", "R6", "R7", "R8", "R9", "R10", "R11", "R12">>

None == "None"

Max(a, b) == IF a >= b THEN a ELSE b

-----------------------------------------------------------------------------
(* Graphs: dict source -> list of destinations                             *)

HasKey(g, n) == \E i \in 1..Len(g) : g[i].src = n

IndexOf(g, n) == CHOOSE i \in 1..Len(g) : g[i].src = n

Lookup(g, n) == g[IndexOf(g, n)].dsts

Keys(g) == {g[i].src : i \in 1..Len(g)}

\* graph[source].append(dest) on a defaultdict(list)
AddEdge(g, s, d) ==
    IF HasKey(g, s)
    THEN LET k == IndexOf(g, s)
         IN  SubSeq(g, 1, k - 1)
                \o <<[src |-> s, dsts |-> Append(g[k].dsts, d)]>>
                \o SubSeq(g, k + 1, Len(g))
    ELSE Append(g, [src |-> s, dsts |-> <<d>>])

RECURSIVE BuildGraph(_)
BuildGraph(edges) ==
    IF edges = <<>> THEN <<>>
    ELSE LET n == Len(edges)
         IN  AddEdge(BuildGraph(SubSeq(edges, 1, n - 1)), edges[n][1], edges[n][2])

\* nodes = set(graph.keys()) updated with every destination list
NodesOf(g) ==
    Keys(g) \cup UNION {{g[i].dsts[j] : j \in 1..Len(g[i].dsts)} : i \in 1..Len(g)}

-----------------------------------------------------------------------------
(* find_longest_cycle_in_graph: the tests and updates of dfs               *)

\* "neighbor == start and path_length >= 1"
ClosesCycle(neighbor, start, path_length) ==
    neighbor = start /\ path_length >= 1

\* the test dropped: every neighbour that does not close a cycle is entered
UnvisitedUnchecked(neighbor, vis) == TRUE

\* "neighbor not in visited"
Unvisited(neighbor, vis) == neighbor \notin vis

\* the closing edge counted twice
CycleLengthOffByOne(path_length) == path_length + 2

\* "path_length + 1", the length recorded for a cycle that was found
CycleLength(path_length) == path_length + 1

\* the removal forgotten
BacktrackForgotten(vis, neighbor) == vis

\* "visited.remove(neighbor)"
Backtrack(vis, neighbor) == vis \ {neighbor}

(* dfs as a recursive operator. What the closure shares between its calls, *)
(* the nonlocal longest and the one visited set object, is the record st;  *)
(* a call returns it as the call leaves it.                                *)
RECURSIVE dfs(_, _, _, _, _), dfs_loop(_, _, _, _, _, _)

dfs(g, start, current, path_length, st) ==
    IF ~HasKey(g, current)
    THEN st
    ELSE dfs_loop(g, start, Lookup(g, current), 1, path_length, st)

dfs_loop(g, start, nbrs, i, path_length, st) ==
    IF i > Len(nbrs)
    THEN st
    ELSE LET neighbor == nbrs[i] IN
         IF ClosesCycle(neighbor, start, path_length)
         THEN dfs_loop(g, start, nbrs, i + 1, path_length,
                       [st EXCEPT !.longest = Max(@, CycleLength(path_length))])
         ELSE IF Unvisited(neighbor, st.visited)
         THEN LET r == dfs(g, start, neighbor, path_length + 1,
                           [st EXCEPT !.visited = @ \cup {neighbor}])
              IN  dfs_loop(g, start, nbrs, i + 1, path_length,
                           [r EXCEPT !.visited = Backtrack(@, neighbor)])
         ELSE dfs_loop(g, start, nbrs, i + 1, path_length, st)

\* "for start_node in graph: visited = {start_node}; dfs(start_node, start_node, visited, 0)"
RECURSIVE start_loop(_, _, _)
start_loop(g, k, best) ==
    IF k > Len(g) THEN best
    ELSE LET start_node == g[k].src
         IN  start_loop(g, k + 1,
                        dfs(g, start_node, start_node, 0,
                            [longest |-> best, visited |-> {start_node}]).longest)

find_longest_cycle_in_graph(g) ==
    IF g = <<>> THEN 0 ELSE start_loop(g, 1, 0)

-----------------------------------------------------------------------------
(* Simple cycles of a graph, by definition                                 *)

HasEdge(g, a, b) ==
    \E i \in 1..Len(g) : g[i].src = a /\ \E j \in 1..Len(g[i].dsts) : g[i].dsts[j] = b

\* p lists the k distinct nodes of a simple cycle p[1] -> ... -> p[k] -> p[1]
IsSimpleCycle(g, p) ==
    /\ Len(p) >= 1
    /\ \A i, j \in 1..Len(p) : i # j => p[i] # p[j]
    /\ \A i \in 1..Len(p) : HasEdge(g, p[i], p[(i % Len(p)) + 1])

SimpleCycleLengths(g) ==
    {k \in 1..Cardinality(Keys(g)) : \E p \in [1..k -> Keys(g)] : IsSimpleCycle(g, p)}

LongestSimpleCycle(g) ==
    IF SimpleCycleLengths(g) = {} THEN 0
    ELSE CHOOSE k \in SimpleCycleLengths(g) : \A m \in SimpleCycleLengths(g) : m <= k

-----------------------------------------------------------------------------
(* Input graphs                                                            *)

EdgeSeqs(n) == UNION {[1..k -> Nodes \X Nodes] : k \in 0..n}

\* The graph that is one simple cycle on the first k ring nodes, its edges
\* inserted in cycle order beginning with the one that leaves node r + 1.
RECURSIVE RingEdges(_, _, _)
RingEdges(k, r, n) ==
    IF n = 0 THEN <<>>
    ELSE Append(RingEdges(k, r, n - 1),
                <<RingNames[((r + n - 1) % k) + 1], RingNames[((r + n) % k) + 1]>>)

Ring(k, r) == BuildGraph(RingEdges(k, r, k))

IsRing(g, k) ==
    /\ Len(g) = k
    /\ Keys(g) = {RingNames[n] : n \in 1..k}
    /\ \A n \in 1..k : Lookup(g, RingNames[n]) = <<RingNames[(n % k) + 1]>>

-----------------------------------------------------------------------------
(* Values of the variables a specification does not use                    *)

NoValue == None

IngestIdle == expected = <<>> /\ kinds = <<>>

NoOutput == [stdout |-> <<>>, stderr |-> <<>>, exit |-> None]

RoutingIdle ==
    /\ partIdx = 0 /\ best_claim_id = None /\ best_status_code = None
    /\ best_length = 0 /\ output = NoOutput

-----------------------------------------------------------------------------
(* SpecCycle: find_longest_cycle_in_graph applied to a bounded input       *)

CycleInputs == {BuildGraph(es) : es \in EdgeSeqs(MaxEdges)}

RingInputs == {Ring(k, r) : k \in 1..MaxRing, r \in 0..(MaxRing - 1)}

CycleInit ==
    /\ pc = "call"
    /\ graph \in CycleInputs
    /\ result = NoValue /\ longest = 0 /\ startIdx = 0 /\ visited = {} /\ stack = <<>>
    /\ graphs = <<>>
    /\ IngestIdle /\ RoutingIdle

Compute ==
    /\ pc = "call"
    /\ result' = find_longest_cycle_in_graph(graph)
    /\ longest' = result'
    /\ pc' = "done"
    /\ UNCHANGED <<graph, startIdx, visited, stack, graphs>>
    /\ UNCHANGED ingestVars /\ UNCHANGED routingVars

CycleNext == Compute

SpecCycle == CycleInit /\ [][CycleNext]_vars

\* SpecRing: the same call on the single-cycle graphs
RingInit ==
    /\ pc = "call"
    /\ graph \in RingInputs
    /\ result = NoValue /\ longest = 0 /\ startIdx = 0 /\ visited = {} /\ stack = <<>>
    /\ graphs = <<>>
    /\ IngestIdle /\ RoutingIdle

SpecRing == RingInit /\ [][CycleNext]_vars

-----------------------------------------------------------------------------
(* SpecDfs: find_longest_cycle_in_graph step by step. A frame of the call  *)
(* stack holds dfs's arguments current and path_length, the position i of  *)
(* "for neighbor in graph[current]", and (history) the visited set as it   *)
(* was before the caller added current to it.                              *)

Top == stack[Len(stack)]

StartNode == graph[startIdx].src

Frame(current, path_length, saved) ==
    [current |-> current, i |-> 1, path_length |-> path_length, saved |-> saved]

Advance(st) ==
    [st EXCEPT ![Len(st)] = [@ EXCEPT !.i = @ + 1]]

DfsInit ==
    /\ pc = "begin"
    /\ graph \in {BuildGraph(es) : es \in EdgeSeqs(DfsMaxEdges)}
    /\ result = NoValue /\ longest = 0 /\ startIdx = 0 /\ visited = {} /\ stack = <<>>
    /\ graphs = <<>>
    /\ IngestIdle /\ RoutingIdle

\* "if not graph: return 0", else "longest = 0" and the loop over start nodes begins
Begin ==
    /\ pc = "begin"
    /\ IF graph = <<>>
       THEN /\ result' = 0
            /\ pc' = "done"
            /\ UNCHANGED <<longest, startIdx>>
       ELSE /\ longest' = 0
            /\ startIdx' = 1
            /\ pc' = "outer"
            /\ UNCHANGED result
    /\ UNCHANGED <<graph, visited, stack, graphs>>
    /\ UNCHANGED ingestVars /\ UNCHANGED routingVars

\* "visited = {start_node}; dfs(start_node, start_node, visited, 0)"
NextStart ==
    /\ pc = "outer"
    /\ startIdx <= Len(graph)
    /\ visited' = {StartNode}
    /\ stack' = <<Frame(StartNode, 0, {StartNode})>>
    /\ pc' = "dfs"
    /\ UNCHANGED <<graph, result, longest, startIdx, graphs>>
    /\ UNCHANGED ingestVars /\ UNCHANGED routingVars

\* "return longest"
Finish ==
    /\ pc = "outer"
    /\ startIdx > Len(graph)
    /\ result' = longest
    /\ pc' = "done"
    /\ UNCHANGED <<graph, longest, startIdx, visited, stack, graphs>>
    /\ UNCHANGED ingestVars /\ UNCHANGED routingVars

\* The top call returns. A nested call returns into its caller, which runs
\* "visited.remove(neighbor)" (a KeyError when neighbor is absent) and moves
\* to its next neighbor; the outermost call returns into the loop over
\* start nodes.
Return ==
    /\ IF Len(stack) = 1
       THEN /\ stack' = <<>>
            /\ startIdx' = startIdx + 1
            /\ pc' = "outer"
            /\ UNCHANGED visited
       ELSE /\ UNCHANGED startIdx
            /\ IF Top.current \in visited
               THEN /\ visited' = Backtrack(visited, Top.current)
                    /\ stack' = Advance(SubSeq(stack, 1, Len(stack) - 1))
                    /\ pc' = "dfs"
               ELSE /\ pc' = "failed"
                    /\ UNCHANGED <<visited, stack>>
    /\ UNCHANGED <<graph, result, longest, graphs>>
    /\ UNCHANGED ingestVars /\ UNCHANGED routingVars

\* "if current not in graph: return"
DfsDeadEnd ==
    /\ pc = "dfs"
    /\ ~HasKey(graph, Top.current)
    /\ Return

\* the loop over graph[current] is exhausted
DfsExhausted ==
    /\ pc = "dfs"
    /\ HasKey(graph, Top.current)
    /\ Top.i > Len(Lookup(graph, Top.current))
    /\ Return

Neighbor == Lookup(graph, Top.current)[Top.i]

InLoop ==
    /\ pc = "dfs"
    /\ HasKey(graph, Top.current)
    /\ Top.i <= Len(Lookup(graph, Top.current))

\* "longest = max(longest, path_length + 1)"
DfsCycle ==
    /\ InLoop
    /\ ClosesCycle(Neighbor, StartNode, Top.path_length)
    /\ longest' = Max(longest, CycleLength(Top.path_length))
    /\ stack' = Advance(stack)
    /\ UNCHANGED <<pc, graph, result, startIdx, visited, graphs>>
    /\ UNCHANGED ingestVars /\ UNCHANGED routingVars

\* "visited.add(neighbor); dfs(start, neighbor, visited, path_length + 1)"
DfsRecurse ==
    /\ InLoop
    /\ ~ClosesCycle(Neighbor, StartNode, Top.path_length)
    /\ Unvisited(Neighbor, visited)
    /\ visited' = visited \cup {Neighbor}
    /\ stack' = Append(stack, Frame(Neighbor, Top.path_length + 1, visited))
    /\ UNCHANGED <<pc, graph, result, longest, startIdx, graphs>>
    /\ UNCHANGED ingestVars /\ UNCHANGED routingVars

\* neither branch of the if applies: the neighbor is on the path already
DfsSkip ==
    /\ InLoop
    /\ ~ClosesCycle(Neighbor, StartNode, Top.path_length)
    /\ ~Unvisited(Neighbor, visited)
    /\ stack' = Advance(stack)
    /\ UNCHANGED <<pc, graph, result, longest, startIdx, visited, graphs>>
    /\ UNCHANGED ingestVars /\ UNCHANGED routingVars

DfsNext ==
    \/ Begin
    \/ NextStart
    \/ Finish
    \/ DfsDeadEnd
    \/ DfsExhausted
    \/ DfsCycle
    \/ DfsRecurse
    \/ DfsSkip

SpecDfs == DfsInit /\ [][DfsNext]_vars

\* The interpreter runs the function to its end: it never stops between steps.
FairSpecDfs == SpecDfs /\ WF_vars(DfsNext)

\* the step-by-step search computes what the recursive operator computes
DfsAgrees == pc = "done" => result = find_longest_cycle_in_graph(graph)

-----------------------------------------------------------------------------
(* process_file: text lines. A string is a sequence of characters.         *)

MaxLines   == 2      \* lines of an input file
MaxLineLen == 4      \* characters of a line

LineChars == {"a", "|", " "}

Lines == UNION {[1..n -> LineChars] : n \in 0..MaxLineLen}

IsSpace(c) == c \in {" ", "\t", "\n", "\r"}

RECURSIVE lstrip(_)
lstrip(s) ==
    IF s # <<>> /\ IsSpace(Head(s)) THEN lstrip(Tail(s)) ELSE s

RECURSIVE rstrip(_)
rstrip(s) ==
    IF s # <<>> /\ IsSpace(s[Len(s)]) THEN rstrip(SubSeq(s, 1, Len(s) - 1)) ELSE s

\* only the leading whitespace removed
strip_leading_only(s) == lstrip(s)

\* line.strip()
strip(s) == rstrip(lstrip(s))

\* line.split(sep): the fields between the occurrences of sep
RECURSIVE split(_, _)
split(s, sep) ==
    IF \A i \in 1..Len(s) : s[i] # sep
    THEN <<s>>
    ELSE LET k == CHOOSE i \in 1..Len(s) :
                      s[i] = sep /\ \A j \in 1..(i - 1) : s[j] # sep
         IN  <<SubSeq(s, 1, k - 1)>> \o split(SubSeq(s, k + 1, Len(s)), sep)

\* "len(parts) != 4" is what skips a line
FieldCountOk(parts) == Len(parts) = 4

HasPart(gs, key) == \E i \in 1..Len(gs) : gs[i].key = key

PartKeys(gs) == {gs[i].key : i \in 1..Len(gs)}

\* "key = (claim_id, status_code); graphs[key][source].append(dest)"
AddRecord(gs, source, dest, claim_id, status_code) ==
    LET key == <<claim_id, status_code>> IN
    IF HasPart(gs, key)
    THEN LET k == CHOOSE i \in 1..Len(gs) : gs[i].key = key
         IN  SubSeq(gs, 1, k - 1)
                \o <<[key |-> key, graph |-> AddEdge(gs[k].graph, source, dest)]>>
                \o SubSeq(gs, k + 1, Len(gs))
    ELSE Append(gs, [key |-> key, graph |-> AddEdge(<<>>, source, dest)])

\* the body of "for line in f"
ProcessLine(gs, line) ==
    LET stripped == strip(line)
        parts    == split(stripped, "|")
    IN  IF stripped = <<>> THEN gs
        ELSE IF ~FieldCountOk(parts) THEN gs
        ELSE AddRecord(gs, parts[1], parts[2], parts[3], parts[4])

(* What a line denotes, by definition: trim it, and if three delimiters    *)
(* remain the four fields are the stretches between them.                  *)

Trimmed(line) ==
    LET solid == {i \in 1..Len(line) : ~IsSpace(line[i])}
    IN  IF solid = {} THEN <<>>
        ELSE SubSeq(line, CHOOSE i \in solid : \A j \in solid : i <= j,
                          CHOOSE i \in solid : \A j \in solid : j <= i)

Delims(t) == {i \in 1..Len(t) : t[i] = "|"}

\* position of the n-th delimiter of t; 0 and Len(t) + 1 stand for the ends
DelimPos(t, n) ==
    IF n = 0 THEN 0
    ELSE IF n > Cardinality(Delims(t)) THEN Len(t) + 1
    ELSE CHOOSE d \in Delims(t) : Cardinality({e \in Delims(t) : e < d}) = n - 1

FieldOf(t, n) == SubSeq(t, DelimPos(t, n - 1) + 1, DelimPos(t, n) - 1)

KindOf(line) ==
    IF Trimmed(line) = <<>> THEN "blank"
    ELSE IF Cardinality(Delims(Trimmed(line))) = 3 THEN "edge"
    ELSE "malformed"

RecordOf(line) ==
    LET t == Trimmed(line)
    IN  [source |-> FieldOf(t, 1), dest |-> FieldOf(t, 2),
         key |-> <<FieldOf(t, 3), FieldOf(t, 4)>>]

IngestInit ==
    /\ pc = "reading"
    /\ graphs = <<>>
    /\ expected = <<>> /\ kinds = <<>>
    /\ graph = <<>> /\ result = NoValue /\ longest = 0
    /\ startIdx = 0 /\ visited = {} /\ stack = <<>>
    /\ RoutingIdle

\* one iteration of "for line in f"
ReadLine ==
    /\ pc = "reading"
    /\ Len(kinds) < MaxLines
    /\ \E line \in Lines :
          /\ graphs' = ProcessLine(graphs, line)
          /\ kinds' = Append(kinds, KindOf(line))
          /\ expected' = IF KindOf(line) = "edge"
                         THEN Append(expected, RecordOf(line))
                         ELSE expected
    /\ UNCHANGED pc
    /\ UNCHANGED searchVars /\ UNCHANGED routingVars

\* the file is exhausted: "return graphs"
EndOfFile ==
    /\ pc = "reading"
    /\ pc' = "returned"
    /\ UNCHANGED <<graphs, expected, kinds>>
    /\ UNCHANGED searchVars /\ UNCHANGED routingVars

IngestNext == ReadLine \/ EndOfFile

SpecIngest == IngestInit /\ [][IngestNext]_vars

-----------------------------------------------------------------------------
(* Claims about process_file (SpecIngest)                                  *)

\* the destinations, in input order, of the expected records of one key
\* and one source
DestsOf(recs, key, source) ==
    LET Hit(e) == e.key = key /\ e.source = source
        hits   == SelectSeq(recs, Hit)
    IN  [i \in 1..Len(hits) |-> hits[i].dest]

\* C6: the graph stored under each partition key holds exactly the edges of
\* the well-formed lines with that key, each source listing its
\* destinations in input order with duplicates kept; blank and malformed
\* lines add no edge and no partition, and ingestion goes on after them.
C6_GraphsHoldWellFormedLines ==
    /\ PartKeys(graphs) = {expected[i].key : i \in 1..Len(expected)}
    /\ \A i, j \in 1..Len(graphs) : graphs[i].key = graphs[j].key => i = j
    /\ \A i \in 1..Len(graphs) :
          LET key == graphs[i].key
              g   == graphs[i].graph
          IN  /\ Keys(g) = {expected[n].source :
                               n \in {m \in 1..Len(expected) : expected[m].key = key}}
              /\ \A a, b \in 1..Len(g) : g[a].src = g[b].src => a = b
              /\ \A a \in 1..Len(g) : g[a].dsts = DestsOf(expected, key, g[a].src)

\* two well-formed lines with the same key and the same source were read:
\* the source lists both destinations
C6_Witness ==
    /\ pc = "returned"
    /\ Len(expected) = 2
    /\ \E i \in 1..Len(graphs) : \E a \in 1..Len(graphs[i].graph) :
          Len(graphs[i].graph[a].dsts) = 2

\* a line was skipped and a later line was still ingested
SkippedThenIngested ==
    /\ pc = "returned"
    /\ Len(kinds) >= 2 /\ kinds[1] # "edge" /\ kinds[2] = "edge"
    /\ Len(graphs) = 1

-----------------------------------------------------------------------------
(* find_longest_routing_cycle and main (SpecRouting). The file's           *)
(* well-formed records are drawn from a bounded set; process_file has      *)
(* built graphs from them when the loop over the partitions begins.        *)

MaxRecords == 4      \* well-formed records of an input file

RoutingNodes  == {"A", "B"}
RoutingClaims == {"C1", "C2"}
RoutingStatus == {"S1", "S2"}

Records == RoutingNodes \X RoutingNodes \X RoutingClaims \X RoutingStatus

RECURSIVE IngestRecords(_)
IngestRecords(rs) ==
    IF rs = <<>> THEN <<>>
    ELSE LET n == Len(rs)
         IN  AddRecord(IngestRecords(SubSeq(rs, 1, n - 1)),
                       rs[n][1], rs[n][2], rs[n][3], rs[n][4])

\* "if cycle_length > best_length"
Improves(cycle_length, best) == cycle_length > best

RoutingInit ==
    /\ pc = "loop"
    /\ graphs \in {IngestRecords(rs) :
                      rs \in UNION {[1..n -> Records] : n \in 0..MaxRecords}}
    /\ partIdx = 1
    /\ best_claim_id = None /\ best_status_code = None /\ best_length = 0
    /\ output = NoOutput
    /\ graph = <<>> /\ result = NoValue /\ longest = 0
    /\ startIdx = 0 /\ visited = {} /\ stack = <<>>
    /\ IngestIdle

\* one iteration of "for (claim_id, status_code), graph in graphs.items()"
NextPartition ==
    /\ pc = "loop"
    /\ partIdx <= Len(graphs)
    /\ LET key          == graphs[partIdx].key
           cycle_length == find_longest_cycle_in_graph(graphs[partIdx].graph)
       IN  IF Improves(cycle_length, best_length)
           THEN /\ best_length' = cycle_length
                /\ best_claim_id' = key[1]
                /\ best_status_code' = key[2]
           ELSE UNCHANGED <<best_length, best_claim_id, best_status_code>>
    /\ partIdx' = partIdx + 1
    /\ UNCHANGED <<pc, graphs, output>>
    /\ UNCHANGED searchVars /\ UNCHANGED ingestVars

\* "return best_claim_id, best_status_code, best_length"
ReturnBest ==
    /\ pc = "loop"
    /\ partIdx > Len(graphs)
    /\ pc' = "returned"
    /\ UNCHANGED <<graphs, partIdx, best_length, best_claim_id, best_status_code, output>>
    /\ UNCHANGED searchVars /\ UNCHANGED ingestVars

\* main: "if claim_id is not None" print the result line, else report
\* "No cycles found" on stderr and sys.exit(1)
Report ==
    /\ pc = "returned"
    /\ output' = IF best_claim_id # None
                 THEN [stdout |-> <<best_claim_id, best_status_code, best_length>>,
                       stderr |-> <<>>, exit |-> 0]
                 ELSE [stdout |-> <<>>, stderr |-> <<"No cycles found">>, exit |-> 1]
    /\ pc' = "exit"
    /\ UNCHANGED <<graphs, partIdx, best_length, best_claim_id, best_status_code>>
    /\ UNCHANGED searchVars /\ UNCHANGED ingestVars

RoutingNext == NextPartition \/ ReturnBest \/ Report

SpecRouting == RoutingInit /\ [][RoutingNext]_vars

-----------------------------------------------------------------------------
(* Claims about find_longest_cycle_in_graph (SpecCycle)                    *)

SelfLoopGraph == BuildGraph(<< <<"A", "A">> >>)

OverlapGraph ==
    BuildGraph(<< <<"A", "B">>, <<"B", "A">>, <<"B", "C">>, <<"C", "B">> >>)

\* C1: the value returned is the maximum edge count over all simple cycles
\* of the graph, and 0 when the graph is empty or has no cycle.
C1_ReturnsLongestSimpleCycle ==
    pc = "done" => result = LongestSimpleCycle(graph)

\* C2: for the graph whose only edge is the self-loop A -> A the value
\* returned is 1.
C2_SelfLoopYieldsOne ==
    (pc = "done" /\ graph = SelfLoopGraph) => result = 1

\* C3: for every k in 1..MaxRing, the graph that is one simple cycle on k
\* distinct nodes makes the search return k.
C3_RingYieldsK ==
    \A k \in 1..MaxRing : (pc = "done" /\ IsRing(graph, k)) => result = k

\* The rings of two or more nodes are measured correctly.
RingsFromTwo ==
    \A k \in 2..MaxRing : (pc = "done" /\ IsRing(graph, k)) => result = k

\* Apart from self-loops the search is exact: it returns the longest simple
\* cycle of two or more edges.
LongestOfTwoOrMore ==
    pc = "done" =>
        result = (IF SimpleCycleLengths(graph) \ {1} = {} THEN 0
                  ELSE LongestSimpleCycle(graph))

\* C7: a non-zero value returned is the edge count of a simple cycle of the
\* graph, so it never exceeds the number of distinct nodes; for the edges
\* A->B, B->A, B->C, C->B the value is 2.
C7_ResultIsSimpleCycleLength ==
    pc = "done" =>
        /\ result = 0 \/ result \in SimpleCycleLengths(graph)
        /\ result <= Cardinality(NodesOf(graph))
        /\ graph = OverlapGraph => result = 2

C7_Witness ==
    pc = "done" /\ graph = OverlapGraph /\ result = 2

-----------------------------------------------------------------------------
(* Claims about find_longest_routing_cycle and main (SpecRouting)          *)

\* the longest simple cycle of the i-th partition, by definition
TrueLen(i) == LongestSimpleCycle(graphs[i].graph)

\* what find_longest_cycle_in_graph returns for the i-th partition
CodeLen(i) == find_longest_cycle_in_graph(graphs[i].graph)

\* the greatest length among the first n partitions, 0 when there is none
MaxUpTo(L(_), n) ==
    CHOOSE m \in {L(i) : i \in 1..n} \cup {0} : \A i \in 1..n : L(i) <= m

\* the first of the first n partitions whose length is m
FirstWith(L(_), n, m) ==
    CHOOSE i \in 1..n : L(i) = m /\ \A j \in 1..(i - 1) : L(j) # m

BestKey == <<best_claim_id, best_status_code>>

Absent == best_claim_id = None /\ best_status_code = None /\ best_length = 0

\* the recorded best is the first of the first n partitions that reaches
\* their greatest length, and is absent when that length is 0
BestIsFirstMax(L(_), n) ==
    LET m == MaxUpTo(L, n)
    IN  IF m = 0 THEN Absent
        ELSE best_length = m /\ BestKey = graphs[FirstWith(L, n, m)].key

\* C4: the key and length returned are those of the partition whose
\* longest-cycle length is the maximum over all partitions, the first such
\* partition in iteration order when several share the maximum.
C4_ReturnsFirstLongestPartition ==
    pc \in {"returned", "exit"} => BestIsFirstMax(TrueLen, Len(graphs))

\* C5: absence (None, None, 0) is returned if and only if no partition's
\* graph contains a cycle; a returned key comes with a length of at least
\* 1; main prints a result line exactly when a key was returned and
\* otherwise reports "No cycles found" with exit status 1; an input with
\* no well-formed line yields absence.
C5_AbsentIffNoCycle ==
    /\ pc \in {"returned", "exit"} =>
          /\ Absent <=> \A i \in 1..Len(graphs) : SimpleCycleLengths(graphs[i].graph) = {}
          /\ best_claim_id # None => best_length >= 1
          /\ graphs = <<>> => Absent
    /\ pc = "exit" =>
          /\ output.stdout # <<>> <=> best_claim_id # None
          /\ best_claim_id # None =>
                output.stdout = <<best_claim_id, best_status_code, best_length>>
          /\ best_claim_id = None =>
                output.stderr = <<"No cycles found">> /\ output.exit = 1

\* C8: during the loop over the partitions best_length never decreases,
\* and after each partition it is the greatest longest-cycle length among
\* the partitions processed so far, the recorded key being a processed
\* partition of that length, or None while best_length is 0.
C8_BestIsRunningMaximum ==
    /\ [](pc = "loop" =>
            /\ best_length = MaxUpTo(TrueLen, partIdx - 1)
            /\ IF best_length = 0 THEN best_claim_id = None /\ best_status_code = None
               ELSE \E i \in 1..(partIdx - 1) :
                       BestKey = graphs[i].key /\ TrueLen(i) = best_length)
    /\ [][best_length' >= best_length]_vars

\* The reduction is exact over the lengths the search returns: at every
\* point of the loop the recorded best is the first processed partition
\* that reaches the greatest returned length.
FoldsReturnedLengths ==
    /\ pc = "loop" => BestIsFirstMax(CodeLen, partIdx - 1)
    /\ pc \in {"returned", "exit"} => BestIsFirstMax(CodeLen, Len(graphs))

\* two partitions share the greatest returned length and the first is kept
TieKeepsFirst ==
    /\ pc = "returned"
    /\ Len(graphs) >= 2
    /\ CodeLen(1) = 2 /\ CodeLen(2) = 2
    /\ BestKey = graphs[1].key

-----------------------------------------------------------------------------
(* Claims about the dfs calls (SpecDfs, FairSpecDfs)                       *)

PathNodes == {stack[j].current : j \in 1..Len(stack)}

VisitedIsPath ==
    /\ visited = PathNodes
    /\ StartNode \in visited
    /\ stack[1].current = StartNode
    /\ \A j \in 1..Len(stack) : stack[j].path_length = j - 1
    /\ Cardinality(visited) = Top.path_length + 1

ReturnRestores ==
    (pc = "dfs" /\ Len(stack) >= 2 /\ Len(stack') = Len(stack) - 1)
        => visited' = Top.saved

\* C9: at every dfs invocation the visited set is the set of nodes on the
\* path from the start node to the current node (it holds the start node
\* and path_length + 1 distinct nodes), and when a recursive call returns
\* the set is again what it was before the neighbour was added.
C9_VisitedIsPath ==
    [](pc = "dfs" => VisitedIsPath) /\ [][ReturnRestores]_vars

\* a recursive call into the neighbour before the current one has returned
C9_Witness ==
    /\ pc = "dfs"
    /\ Len(stack) >= 2
    /\ HasKey(graph, Top.current)
    /\ Top.i >= 2
    /\ Top.i - 1 <= Len(Lookup(graph, Top.current))
    /\ Lookup(graph, Top.current)[Top.i - 1] \notin visited

\* C10: the search ends and returns a value without failing, and the depth
\* of the recursion never exceeds the number of distinct nodes.
C10_SearchTerminates ==
    /\ [](pc # "failed" /\ Len(stack) <= Cardinality(NodesOf(graph)))
    /\ <>(pc = "done")

\* the search has ended on a graph with a cycle, a self-loop and a
\* dead-end node
C10_Witness ==
    /\ pc = "done"
    /\ result >= 2
    /\ \E n \in Keys(graph) : HasEdge(graph, n, n)
    /\ NodesOf(graph) \ Keys(graph) # {}

====
